---- MODULE Spec2Model ----
(***************************************************************************)
(* A model of the DebugSession class of vscode-debugadapter                *)
(* (adapter/src/debugSession.ts): the request dispatcher, the error        *)
(* response construction, the PII-aware message formatter and the          *)
(* line/column translation between client and debugger conventions.        *)
(*                                                                         *)
(* Conventions of the model:                                               *)
(*  - a JavaScript string is a sequence of one-character strings;          *)
(*  - an optional value (a property that may be undefined/null) is a set   *)
(*    with at most one element: {} is undefined, {v} is the value v;       *)
(*  - an object used as a dictionary is a function from its own keys.      *)
(***************************************************************************)
EXTENDS Integers, Sequences, FiniteSets, TLC

VARIABLES
    debuggerLinesStartAt1,      \* this._debuggerLinesStartAt1
    debuggerColumnsStartAt1,    \* this._debuggerColumnsStartAt1
    debuggerPathsAreURIs,       \* this._debuggerPathsAreURIs
    clientLinesStartAt1,        \* this._clientLinesStartAt1
    clientColumnsStartAt1,      \* this._clientColumnsStartAt1
    clientPathsAreURIs,         \* this._clientPathsAreURIs
    isServer,                   \* this._isServer
    exitTimers,                 \* pending setTimeout(process.exit(0)) timers
    handshake,                  \* history, kept where a property reads it:
                                \* what the initialize requests carried
    out,                        \* observation: outcome of the last call
    process,                    \* the process run() started: mode, exit code
    siblings,                   \* the other sessions of a server process
    inflight                    \* responses held by suspended handlers

vars == <<debuggerLinesStartAt1, debuggerColumnsStartAt1, debuggerPathsAreURIs,
          clientLinesStartAt1, clientColumnsStartAt1, clientPathsAreURIs,
          isServer, exitTimers, handshake, out,
          process, siblings, inflight>>

\* what lies outside one session object, and the handlers it has suspended
surroundings == <<process, siblings, inflight>>

flags == <<debuggerLinesStartAt1, debuggerColumnsStartAt1, debuggerPathsAreURIs,
           clientLinesStartAt1, clientColumnsStartAt1, clientPathsAreURIs,
           isServer>>

-----------------------------------------------------------------------------
(* Bounds of the model.                                                    *)

\* request sequence numbers are drawn from 1..MaxSeq
MaxSeq == 2
\* line and column numbers are drawn from -MaxLine..MaxLine
MaxLine == 3
\* templates given to formatPII have at most MaxTemplateLen characters
MaxTemplateLen == 4
\* at most MaxTimers pending exit timers are counted
MaxTimers == 1

-----------------------------------------------------------------------------
(* Optional values.                                                        *)

None == {}
Some(v) == {v}
IsSome(o) == o # {}
The(o) == CHOOSE v \in o : TRUE

-----------------------------------------------------------------------------
(* Coordinate translation, debugSession.ts 552-578.                        *)

convertClientLineToDebugger(line) ==
    IF debuggerLinesStartAt1
    THEN (IF clientLinesStartAt1 THEN line ELSE line + 1)
    ELSE (IF clientLinesStartAt1 THEN line - 1 ELSE line)

convertDebuggerLineToClientSwapped(line) ==
    IF debuggerLinesStartAt1
    THEN (IF clientLinesStartAt1 THEN line ELSE line + 1)
    ELSE (IF clientLinesStartAt1 THEN line - 1 ELSE line)

convertDebuggerLineToClient(line) ==
    IF debuggerLinesStartAt1
    THEN (IF clientLinesStartAt1 THEN line ELSE line - 1)
    ELSE (IF clientLinesStartAt1 THEN line + 1 ELSE line)

convertClientColumnToDebugger(column) ==
    IF debuggerColumnsStartAt1
    THEN (IF clientColumnsStartAt1 THEN column ELSE column + 1)
    ELSE (IF clientColumnsStartAt1 THEN column - 1 ELSE column)

convertDebuggerColumnToClient(column) ==
    IF debuggerColumnsStartAt1
    THEN (IF clientColumnsStartAt1 THEN column ELSE column - 1)
    ELSE (IF clientColumnsStartAt1 THEN column + 1 ELSE column)

-----------------------------------------------------------------------------
(* Error formatter, debugSession.ts 616-630.                               *)
(*                                                                         *)
(* _formatPIIRegexp = /{([^}]+)}/g : a token starts at a "{", runs over    *)
(* one or more characters other than "}" and ends at the next "}".         *)
(* String.replace scans left to right and does not rescan a replacement.   *)

\* args[paramName] is truthy: defined and not the empty string
Truthy(v) == IsSome(v) /\ The(v) # <<>>

Min(S) == CHOOSE x \in S : \A y \in S : x <= y

\* the token the regexp matches at position i ends at this position; 0 when
\* it matches none there: the "{" must be followed by at least one
\* character other than "}" before the next "}"
MatchEnd(format, i) ==
    LET closes == {j \in (i + 1)..Len(format) : format[j] = "}"}
    IN  IF format[i] # "{" \/ closes = {} THEN 0
        ELSE IF Min(closes) > i + 1 THEN Min(closes) ELSE 0

\* the positions from i on at which the regexp matches a token
MatchStarts(format, i) ==
    {k \in i..Len(format) : MatchEnd(format, k) # 0}

\* the replacer callback of formatPII (lines 622-629); reading a property
\* of an undefined or null args throws a TypeError
formatPIIReplacer(match, paramName, excludePII, args) ==
    IF excludePII /\ Len(paramName) > 0 /\ paramName[1] # "_"
    THEN [threw |-> FALSE, value |-> match]
    ELSE IF args = None
    THEN [threw |-> TRUE, value |-> <<>>]
    ELSE LET a == The(args)
         IN  IF paramName \in DOMAIN a /\ Truthy(a[paramName])
             THEN [threw |-> FALSE, value |-> The(a[paramName])]
             ELSE [threw |-> FALSE, value |-> match]

\* String.replace with the global regexp, resumed at position i: the text
\* up to the next token is copied, the token is replaced by what the
\* replacer returns, and the scan resumes after the token
RECURSIVE formatPIIFrom(_, _, _, _, _)
formatPIIFrom(format, excludePII, args, i, acc) ==
    LET starts == MatchStarts(format, i)
    IN  IF starts = {}
        THEN [threw |-> FALSE, value |-> acc \o SubSeq(format, i, Len(format))]
        ELSE LET k == Min(starts)
                 j == MatchEnd(format, k)
                 r == formatPIIReplacer(SubSeq(format, k, j),
                                        SubSeq(format, k + 1, j - 1),
                                        excludePII, args)
             IN  IF r.threw THEN r
                 ELSE formatPIIFrom(format, excludePII, args, j + 1,
                                    acc \o SubSeq(format, i, k - 1) \o r.value)

formatPII(format, excludePII, args) ==
    formatPIIFrom(format, excludePII, args, 1, <<>>)

-----------------------------------------------------------------------------
(* Messages.                                                               *)

\* enum ErrorDestination (lines 212-215)
User == 1
Telemetry == 2

\* the bit test  dest & flag  for flag a power of two
HasDestination(dest, flag) == (dest \div flag) % 2 = 1

NativePathsFormat == <<"d", "e", "b", "u", "g", " ", "a", "d", "a", "p", "t", "e", "r", " ", "o", "n", "l", "y", " ", "s", "u", "p", "p", "o", "r", "t", "s", " ", "n", "a", "t", "i", "v", "e", " ", "p", "a", "t", "h", "s">>
UnrecognizedRequestFormat == <<"u", "n", "r", "e", "c", "o", "g", "n", "i", "z", "e", "d", " ", "r", "e", "q", "u", "e", "s", "t">>
StackFormat == <<"{", "_", "s", "t", "a", "c", "k", "}">>
ExceptionKey == <<"_", "e", "x", "c", "e", "p", "t", "i", "o", "n">>
StackKey == <<"_", "s", "t", "a", "c", "k">>

\* an object with no own properties
EmptyObject == [k \in {} |-> None]

\* new Response(request): the shell correlated to the request, success true
Response(request) ==
    [request_seq |-> request.seq,
     command |-> request.command,
     success |-> TRUE,
     message |-> None,
     body |-> None]

\* response.body = {}
EmptyBody == [error |-> None, fields |-> EmptyObject]

-----------------------------------------------------------------------------
(* The state one dispatchRequest call works on: the session fields it may  *)
(* write, the Response object it shares with the handler, the responses    *)
(* handed to sendResponse so far, the handlers invoked so far with the     *)
(* command name each was passed, the calls made on the transport and on    *)
(* the runtime in the order they were made, and the exception in flight,   *)
(* if any.                                                                 *)

\* lines 348-350 with the Response made for the request in flight before
\* this one, when there is one
StartOnLastResponse(request) ==
    [clientLinesStartAt1 |-> clientLinesStartAt1,
     clientColumnsStartAt1 |-> clientColumnsStartAt1,
     exitTimers |-> exitTimers,
     response |-> IF inflight = <<>>
                  THEN Response(request)
                  ELSE inflight[Len(inflight)].response,
     sent |-> <<>>,
     invoked |-> <<>>,
     passed |-> <<>>,
     log |-> <<>>,
     thrown |-> None]

Start(request) ==
    [clientLinesStartAt1 |-> clientLinesStartAt1,
     clientColumnsStartAt1 |-> clientColumnsStartAt1,
     exitTimers |-> exitTimers,
     response |-> Response(request),
     sent |-> <<>>,
     invoked |-> <<>>,
     passed |-> <<>>,
     log |-> <<>>,
     thrown |-> None]

\* values a handler may throw: an Error object, a primitive such as a
\* string (it has no message and no stack property), and null or undefined
ErrorValue ==
    [kind |-> "Error", message |-> Some(<<"b", "a", "d">>),
     stack |-> Some(<<"a", "t", " ", "f">>)]
PrimitiveValue == [kind |-> "primitive", message |-> None, stack |-> None]
NullishValue == [kind |-> "nullish", message |-> None, stack |-> None]
ThrownValues == {ErrorValue, PrimitiveValue, NullishValue}

\* the TypeError raised by reading a property of undefined or null
TypeErrorValue ==
    [kind |-> "Error", message |-> Some(<<"T", "y", "p", "e">>),
     stack |-> Some(<<"T", "y", "p", "e", " ", "a", "t">>)]

Throw(st, e) == [st EXCEPT !.thrown = Some(e)]

\* ProtocolServer.sendResponse: the response, as it is now, goes to the transport
sendResponse(st) ==
    [st EXCEPT !.sent = Append(@, st.response),
               !.log = Append(@, "sendResponse")]

\* lines 306-315 without the test of _isServer
shutdownAlways(st) ==
    [st EXCEPT !.exitTimers = IF @ < MaxTimers THEN @ + 1 ELSE @,
               !.log = Append(@, "setTimeout")]

\* shutdown, lines 306-315
shutdown(st) ==
    IF isServer
    THEN [st EXCEPT !.log = Append(@, "console.error")]
    ELSE [st EXCEPT !.exitTimers = IF @ < MaxTimers THEN @ + 1 ELSE @,
                    !.log = Append(@, "setTimeout")]

-----------------------------------------------------------------------------
(* sendErrorResponse, lines 317-346.                                       *)

Code(n) == [code |-> Some(n), message |-> None]
Prebuilt(m) == [code |-> None, message |-> Some(m)]

\* lines 319-336
ErrorMessage(codeOrMessage, format, variables, dest) ==
    IF IsSome(codeOrMessage.code)
    THEN [id |-> The(codeOrMessage.code),
          format |-> format,
          variables |-> variables,
          showUser |-> IF HasDestination(dest, User) THEN Some(TRUE) ELSE None,
          sendTelemetry |-> IF HasDestination(dest, Telemetry) THEN Some(TRUE) ELSE None]
    ELSE The(codeOrMessage.message)

\* line 339
renderMessage(msg) ==
    formatPII(msg.format, TRUE, msg.variables)

sendErrorResponse(st, codeOrMessage, format, variables, dest) ==
    LET msg == ErrorMessage(codeOrMessage, format, variables, dest)
        text == renderMessage(msg)
        body == IF st.response.body = None THEN EmptyBody ELSE The(st.response.body)
    IN  IF text.threw
        THEN Throw([st EXCEPT !.response.success = FALSE], TypeErrorValue)
        ELSE sendResponse([st EXCEPT !.response.success = FALSE,
                                     !.response.message = Some(text.value),
                                     !.response.body = Some([body EXCEPT !.error = Some(msg)])])

-----------------------------------------------------------------------------
(* Default request handlers, lines 439-548.                                *)

Capabilities ==
    [supportsConditionalBreakpoints |-> FALSE,
     supportsFunctionBreakpoints |-> FALSE,
     supportsConfigurationDoneRequest |-> TRUE,
     supportsEvaluateForHovers |-> FALSE,
     supportsStepBack |-> FALSE,
     supportsSetVariable |-> FALSE]

\* assignment of the properties of b to the object a
Assign(a, b) ==
    [k \in DOMAIN a \cup DOMAIN b |-> IF k \in DOMAIN b THEN b[k] ELSE a[k]]

initializeRequest(st, args) ==
    LET body == The(st.response.body)
    IN  sendResponse([st EXCEPT !.response.body =
                          Some([body EXCEPT !.fields = Assign(@, Capabilities)])])

\* lines 462-465 with the two calls in the other order
disconnectRequestShutdownFirst(st, args) ==
    sendResponse(shutdown(st))

disconnectRequest(st, args) ==
    shutdown(sendResponse(st))

launchRequest(st, args) ==
    sendResponse(st)

attachRequest(st, args) ==
    sendResponse(st)

setBreakPointsRequest(st, args) ==
    sendResponse(st)

setFunctionBreakPointsRequest(st, args) ==
    sendResponse(st)

setExceptionBreakPointsRequest(st, args) ==
    sendResponse(st)

configurationDoneRequest(st, args) ==
    sendResponse(st)

continueRequest(st, args) ==
    sendResponse(st)

nextRequest(st, args) ==
    sendResponse(st)

stepInRequest(st, args) ==
    sendResponse(st)

stepOutRequest(st, args) ==
    sendResponse(st)

stepBackRequestNoSend(st, args) ==
    st

stepBackRequest(st, args) ==
    sendResponse(st)

pauseRequest(st, args) ==
    sendResponse(st)

stackTraceRequest(st, args) ==
    sendResponse(st)

scopesRequest(st, args) ==
    sendResponse(st)

variablesRequest(st, args) ==
    sendResponse(st)

setVariableRequest(st, args) ==
    sendResponse(st)

sourceRequest(st, args) ==
    sendResponse(st)

threadsRequest(st, args) ==
    sendResponse(st)

evaluateRequest(st, args) ==
    sendResponse(st)

\* lines 546-548 followed by this.shutdown()
customRequestFatal(st, command, args) ==
    shutdown(sendErrorResponse(st, Code(1014), UnrecognizedRequestFormat, None,
                               Telemetry))

customRequestToUser(st, command, args) ==
    sendErrorResponse(st, Code(1014), UnrecognizedRequestFormat, None, User)

customRequest(st, command, args) ==
    sendErrorResponse(st, Code(1014), UnrecognizedRequestFormat, None, Telemetry)

-----------------------------------------------------------------------------
(* Handlers are protected methods an adapter overrides.  A handler is      *)
(* either the default one of this class, or an override that throws        *)
(* before it has sent, sends and then throws, or returns without sending. *)

DefaultHandler == [kind |-> "default", e |-> None]
Overrides ==
    {[kind |-> "throws", e |-> Some(e)] : e \in ThrownValues}
    \cup {[kind |-> "sendsThenThrows", e |-> Some(e)] : e \in ThrownValues}
    \cup {[kind |-> "returns", e |-> None]}

\* the override that returns without sending
Suspends == [kind |-> "returns", e |-> None]

\* the override that throws an Error before it has sent
ThrowsError == [kind |-> "throws", e |-> Some(ErrorValue)]

Override(st, h) ==
    IF h.kind = "throws" THEN Throw(st, The(h.e))
    ELSE IF h.kind = "sendsThenThrows" THEN Throw(sendResponse(st), The(h.e))
    ELSE st

DefaultOf(name, st, command, args) ==
    CASE name = "initializeRequest" -> initializeRequest(st, args)
      [] name = "disconnectRequest" -> disconnectRequest(st, args)
      [] name = "launchRequest" -> launchRequest(st, args)
      [] name = "attachRequest" -> attachRequest(st, args)
      [] name = "setBreakPointsRequest" -> setBreakPointsRequest(st, args)
      [] name = "setFunctionBreakPointsRequest" -> setFunctionBreakPointsRequest(st, args)
      [] name = "setExceptionBreakPointsRequest" -> setExceptionBreakPointsRequest(st, args)
      [] name = "configurationDoneRequest" -> configurationDoneRequest(st, args)
      [] name = "continueRequest" -> continueRequest(st, args)
      [] name = "nextRequest" -> nextRequest(st, args)
      [] name = "stepInRequest" -> stepInRequest(st, args)
      [] name = "stepOutRequest" -> stepOutRequest(st, args)
      [] name = "stepBackRequest" -> stepBackRequest(st, args)
      [] name = "pauseRequest" -> pauseRequest(st, args)
      [] name = "stackTraceRequest" -> stackTraceRequest(st, args)
      [] name = "scopesRequest" -> scopesRequest(st, args)
      [] name = "variablesRequest" -> variablesRequest(st, args)
      [] name = "setVariableRequest" -> setVariableRequest(st, args)
      [] name = "sourceRequest" -> sourceRequest(st, args)
      [] name = "threadsRequest" -> threadsRequest(st, args)
      [] name = "evaluateRequest" -> evaluateRequest(st, args)
      [] OTHER -> customRequest(st, command, args)

\* the virtual call this.<name>(response, args) under the handler h
InvokeNamed(name, st, command, args, h) ==
    LET entered == [st EXCEPT !.invoked = Append(@, name),
                              !.passed = Append(@, command)]
    IN  IF h.kind = "default"
        THEN DefaultOf(name, entered, command, args)
        ELSE Override(entered, h)

Invoke(name, st, args, h) == InvokeNamed(name, st, "", args, h)

-----------------------------------------------------------------------------
(* dispatchRequest, lines 348-437.                                         *)

InitializeArguments ==
    [linesStartAt1 : {None, Some(TRUE), Some(FALSE)},
     columnsStartAt1 : {None, Some(TRUE), Some(FALSE)},
     pathFormat : {None, Some("path"), Some("uri")}]

NoFields == [linesStartAt1 |-> None, columnsStartAt1 |-> None, pathFormat |-> None]

\* lines 356-361
updateClientFlags(st, args) ==
    LET a == IF IsSome(args.linesStartAt1)
             THEN [st EXCEPT !.clientLinesStartAt1 = The(args.linesStartAt1)]
             ELSE st
    IN  IF IsSome(args.columnsStartAt1)
        THEN [a EXCEPT !.clientColumnsStartAt1 = The(args.columnsStartAt1)]
        ELSE a

\* lines 353-369 without the check of the path format
dispatchInitializeNoValidation(st, request, h) ==
    IF request.arguments = None
    THEN Throw(st, TypeErrorValue)
    ELSE Invoke("initializeRequest",
                [updateClientFlags(st, The(request.arguments))
                    EXCEPT !.response.body = Some(EmptyBody)],
                request.arguments, h)

\* lines 353-369
dispatchInitialize(st, request, h) ==
    IF request.arguments = None
    THEN Throw(st, TypeErrorValue)
    ELSE LET args == The(request.arguments)
             updated == updateClientFlags(st, args)
         IN  IF args.pathFormat # Some("path")
             THEN sendErrorResponse(updated, Code(2018), NativePathsFormat,
                                    None, Telemetry)
             ELSE Invoke("initializeRequest",
                         [updated EXCEPT !.response.body = Some(EmptyBody)],
                         request.arguments, h)

\* lines 353-433 with the handlers of stepIn and stepOut exchanged
tryDispatchStepsCrossed(st, request, h) ==
    IF request.command = "initialize"
    THEN dispatchInitialize(st, request, h)
    ELSE IF request.command = "launch"
    THEN Invoke("launchRequest", st, request.arguments, h)
    ELSE IF request.command = "attach"
    THEN Invoke("attachRequest", st, request.arguments, h)
    ELSE IF request.command = "disconnect"
    THEN Invoke("disconnectRequest", st, request.arguments, h)
    ELSE IF request.command = "setBreakpoints"
    THEN Invoke("setBreakPointsRequest", st, request.arguments, h)
    ELSE IF request.command = "setFunctionBreakpoints"
    THEN Invoke("setFunctionBreakPointsRequest", st, request.arguments, h)
    ELSE IF request.command = "setExceptionBreakpoints"
    THEN Invoke("setExceptionBreakPointsRequest", st, request.arguments, h)
    ELSE IF request.command = "configurationDone"
    THEN Invoke("configurationDoneRequest", st, request.arguments, h)
    ELSE IF request.command = "continue"
    THEN Invoke("continueRequest", st, request.arguments, h)
    ELSE IF request.command = "next"
    THEN Invoke("nextRequest", st, request.arguments, h)
    ELSE IF request.command = "stepIn"
    THEN Invoke("stepOutRequest", st, request.arguments, h)
    ELSE IF request.command = "stepOut"
    THEN Invoke("stepInRequest", st, request.arguments, h)
    ELSE IF request.command = "stepBack"
    THEN Invoke("stepBackRequest", st, request.arguments, h)
    ELSE IF request.command = "pause"
    THEN Invoke("pauseRequest", st, request.arguments, h)
    ELSE IF request.command = "stackTrace"
    THEN Invoke("stackTraceRequest", st, request.arguments, h)
    ELSE IF request.command = "scopes"
    THEN Invoke("scopesRequest", st, request.arguments, h)
    ELSE IF request.command = "variables"
    THEN Invoke("variablesRequest", st, request.arguments, h)
    ELSE IF request.command = "setVariable"
    THEN Invoke("setVariableRequest", st, request.arguments, h)
    ELSE IF request.command = "source"
    THEN Invoke("sourceRequest", st, request.arguments, h)
    ELSE IF request.command = "threads"
    THEN Invoke("threadsRequest", st, request.arguments, h)
    ELSE IF request.command = "evaluate"
    THEN Invoke("evaluateRequest", st, request.arguments, h)
    ELSE InvokeNamed("customRequest", st, request.command, request.arguments, h)

\* the try block, lines 353-433
tryDispatch(st, request, h) ==
    IF request.command = "initialize"
    THEN dispatchInitialize(st, request, h)
    ELSE IF request.command = "launch"
    THEN Invoke("launchRequest", st, request.arguments, h)
    ELSE IF request.command = "attach"
    THEN Invoke("attachRequest", st, request.arguments, h)
    ELSE IF request.command = "disconnect"
    THEN Invoke("disconnectRequest", st, request.arguments, h)
    ELSE IF request.command = "setBreakpoints"
    THEN Invoke("setBreakPointsRequest", st, request.arguments, h)
    ELSE IF request.command = "setFunctionBreakpoints"
    THEN Invoke("setFunctionBreakPointsRequest", st, request.arguments, h)
    ELSE IF request.command = "setExceptionBreakpoints"
    THEN Invoke("setExceptionBreakPointsRequest", st, request.arguments, h)
    ELSE IF request.command = "configurationDone"
    THEN Invoke("configurationDoneRequest", st, request.arguments, h)
    ELSE IF request.command = "continue"
    THEN Invoke("continueRequest", st, request.arguments, h)
    ELSE IF request.command = "next"
    THEN Invoke("nextRequest", st, request.arguments, h)
    ELSE IF request.command = "stepIn"
    THEN Invoke("stepInRequest", st, request.arguments, h)
    ELSE IF request.command = "stepOut"
    THEN Invoke("stepOutRequest", st, request.arguments, h)
    ELSE IF request.command = "stepBack"
    THEN Invoke("stepBackRequest", st, request.arguments, h)
    ELSE IF request.command = "pause"
    THEN Invoke("pauseRequest", st, request.arguments, h)
    ELSE IF request.command = "stackTrace"
    THEN Invoke("stackTraceRequest", st, request.arguments, h)
    ELSE IF request.command = "scopes"
    THEN Invoke("scopesRequest", st, request.arguments, h)
    ELSE IF request.command = "variables"
    THEN Invoke("variablesRequest", st, request.arguments, h)
    ELSE IF request.command = "setVariable"
    THEN Invoke("setVariableRequest", st, request.arguments, h)
    ELSE IF request.command = "source"
    THEN Invoke("sourceRequest", st, request.arguments, h)
    ELSE IF request.command = "threads"
    THEN Invoke("threadsRequest", st, request.arguments, h)
    ELSE IF request.command = "evaluate"
    THEN Invoke("evaluateRequest", st, request.arguments, h)
    ELSE InvokeNamed("customRequest", st, request.command, request.arguments, h)

\* lines 434-437 followed by a send of the response when the handler has
\* returned without sending
catchDispatchAutoSend(st) ==
    IF st.thrown = None
    THEN IF st.sent = <<>> THEN sendResponse(st) ELSE st
    ELSE LET e == The(st.thrown)
         IN  IF e.kind = "nullish"
             THEN Throw(st, TypeErrorValue)
             ELSE sendErrorResponse([st EXCEPT !.thrown = None], Code(1104),
                      StackFormat,
                      Some([k \in {ExceptionKey, StackKey} |->
                               IF k = ExceptionKey THEN e.message ELSE e.stack]),
                      Telemetry)

\* the catch block, lines 434-436: e.message and e.stack are read first,
\* and reading a property of null or undefined throws out of the block
catchDispatch(st) ==
    IF st.thrown = None
    THEN st
    ELSE LET e == The(st.thrown)
         IN  IF e.kind = "nullish"
             THEN Throw(st, TypeErrorValue)
             ELSE sendErrorResponse([st EXCEPT !.thrown = None], Code(1104),
                      StackFormat,
                      Some([k \in {ExceptionKey, StackKey} |->
                               IF k = ExceptionKey THEN e.message ELSE e.stack]),
                      Telemetry)

dispatchRequest(request, h) ==
    catchDispatch(tryDispatch(Start(request), request, h))

-----------------------------------------------------------------------------
(* Construction, debugSession.ts 229-249.                                  *)

NoOutcome == [kind |-> "none"]
NoHandshake == [lines |-> None, columns |-> None]

\* new DebugSession(obsolete_debuggerLinesAndColumnsStartAt1, obsolete_isServer)
Constructed(linesAndColumnsStartAt1, server) ==
    /\ debuggerLinesStartAt1 = linesAndColumnsStartAt1
    /\ debuggerColumnsStartAt1 = linesAndColumnsStartAt1
    /\ debuggerPathsAreURIs = FALSE
    /\ clientLinesStartAt1 = TRUE
    /\ clientColumnsStartAt1 = TRUE
    /\ clientPathsAreURIs = FALSE
    /\ isServer = server
    /\ exitTimers = 0
    /\ handshake = NoHandshake

\* the process before any signal, with no other session, no handler
\* suspended and no error answered; server tells whether run() was given
\* --server=<port>
Started(server) ==
    /\ process = [server |-> server, exited |-> None, errors |-> {}]
    /\ siblings = <<>>
    /\ inflight = <<>>

Init ==
    /\ \E l \in BOOLEAN, s \in BOOLEAN : Constructed(l, s) /\ Started(s)
    /\ out = NoOutcome

-----------------------------------------------------------------------------
(* Setters, debugSession.ts 251-265.                                       *)

setDebuggerLinesStartAt1(enable) ==
    /\ debuggerLinesStartAt1' = enable
    /\ UNCHANGED <<debuggerColumnsStartAt1, debuggerPathsAreURIs,
                   clientLinesStartAt1, clientColumnsStartAt1,
                   clientPathsAreURIs, isServer, exitTimers, handshake, out>>
    /\ UNCHANGED surroundings

setDebuggerColumnsStartAt1(enable) ==
    /\ debuggerColumnsStartAt1' = enable
    /\ UNCHANGED <<debuggerLinesStartAt1, debuggerPathsAreURIs,
                   clientLinesStartAt1, clientColumnsStartAt1,
                   clientPathsAreURIs, isServer, exitTimers, handshake, out>>
    /\ UNCHANGED surroundings

-----------------------------------------------------------------------------
(* Calls of the translation functions by the adapter.                      *)

LineNumbers == (0 - MaxLine)..MaxLine

Converted(fn, n, client1, debugger1, result) ==
    [kind |-> "convert", fn |-> fn, n |-> n, clientStartAt1 |-> client1,
     debuggerStartAt1 |-> debugger1, result |-> result]

CallConvertClientLineToDebugger(n) ==
    /\ out' = Converted("convertClientLineToDebugger", n, clientLinesStartAt1,
                        debuggerLinesStartAt1, convertClientLineToDebugger(n))
    /\ UNCHANGED <<flags, exitTimers, handshake>>
    /\ UNCHANGED surroundings

CallConvertDebuggerLineToClient(n) ==
    /\ out' = Converted("convertDebuggerLineToClient", n, clientLinesStartAt1,
                        debuggerLinesStartAt1, convertDebuggerLineToClient(n))
    /\ UNCHANGED <<flags, exitTimers, handshake>>
    /\ UNCHANGED surroundings

CallConvertClientColumnToDebugger(n) ==
    /\ out' = Converted("convertClientColumnToDebugger", n, clientColumnsStartAt1,
                        debuggerColumnsStartAt1, convertClientColumnToDebugger(n))
    /\ UNCHANGED <<flags, exitTimers, handshake>>
    /\ UNCHANGED surroundings

CallConvertDebuggerColumnToClient(n) ==
    /\ out' = Converted("convertDebuggerColumnToClient", n, clientColumnsStartAt1,
                        debuggerColumnsStartAt1, convertDebuggerColumnToClient(n))
    /\ UNCHANGED <<flags, exitTimers, handshake>>
    /\ UNCHANGED surroundings

-----------------------------------------------------------------------------
(* Requests delivered by the transport.                                    *)

RecognizedCommands ==
    {"initialize", "launch", "attach", "disconnect", "setBreakpoints",
     "setFunctionBreakpoints", "setExceptionBreakpoints", "configurationDone",
     "continue", "next", "stepIn", "stepOut", "stepBack", "pause",
     "stackTrace", "scopes", "variables", "setVariable", "source", "threads",
     "evaluate"}

CustomCommands == {"restart", "Launch"}

SeqNumbers == 1..MaxSeq

\* an initialize request carries InitializeRequestArguments, or none at all;
\* a threads request carries no arguments; the arguments of the other
\* requests are opaque to the dispatcher
Requests ==
    {[seq |-> n, command |-> "initialize", arguments |-> a] :
        n \in SeqNumbers, a \in {None} \cup {Some(x) : x \in InitializeArguments}}
    \cup
    {[seq |-> n, command |-> c,
      arguments |-> IF c = "threads" THEN None ELSE Some(NoFields)] :
        n \in SeqNumbers,
        c \in (RecognizedCommands \ {"initialize"}) \cup CustomCommands}

\* history: for each client flag, the values carried so far by the
\* initialize requests with pathFormat 'path'; no other request adds to
\* it or takes from it
Carried(old, field, request) ==
    IF /\ request.command = "initialize" /\ IsSome(request.arguments)
       /\ The(request.arguments).pathFormat = Some("path")
    THEN old \cup The(request.arguments)[field]
    ELSE old

\* what one call dispatchRequest(request), ended in st, leaves in the session
Dispatching(request, h, st) ==
    /\ clientLinesStartAt1' = st.clientLinesStartAt1
    /\ clientColumnsStartAt1' = st.clientColumnsStartAt1
    /\ exitTimers' = st.exitTimers
    /\ out' = [kind |-> "dispatch", request |-> request, handler |-> h,
               invoked |-> st.invoked, passed |-> st.passed,
               sent |-> st.sent, log |-> st.log, escaped |-> st.thrown]
    /\ UNCHANGED <<debuggerLinesStartAt1, debuggerColumnsStartAt1,
                   debuggerPathsAreURIs, clientPathsAreURIs, isServer>>

\* the transport hands a request to dispatchRequest, whose handlers are h
DispatchRequest(request, h) ==
    \E st \in {dispatchRequest(request, h)} :
        /\ Dispatching(request, h, st)
        /\ UNCHANGED handshake
        /\ UNCHANGED surroundings

\* the same step, with the history of the initialize requests kept
DispatchRecorded(request, h) ==
    \E st \in {dispatchRequest(request, h)} :
        /\ Dispatching(request, h, st)
        /\ handshake' =
              [lines |-> Carried(handshake.lines, "linesStartAt1", request),
               columns |-> Carried(handshake.columns, "columnsStartAt1", request)]
        /\ UNCHANGED surroundings

-----------------------------------------------------------------------------
(* The session with the default handlers of the class.                     *)

Next ==
    \/ \E enable \in BOOLEAN : setDebuggerLinesStartAt1(enable)
    \/ \E enable \in BOOLEAN : setDebuggerColumnsStartAt1(enable)
    \/ \E n \in LineNumbers : CallConvertClientLineToDebugger(n)
    \/ \E n \in LineNumbers : CallConvertDebuggerLineToClient(n)
    \/ \E n \in LineNumbers : CallConvertClientColumnToDebugger(n)
    \/ \E n \in LineNumbers : CallConvertDebuggerColumnToClient(n)
    \/ \E request \in Requests : DispatchRecorded(request, DefaultHandler)

Spec == Init /\ [][Next]_vars

-----------------------------------------------------------------------------
(* The session of an adapter that overrides the handlers.                  *)

\* the stdio session of run(), line 298: new debugSession(false)
InitStdio ==
    /\ Constructed(FALSE, FALSE)
    /\ Started(FALSE)
    /\ out = NoOutcome

NextHandlers ==
    \E request \in Requests, h \in Overrides : DispatchRequest(request, h)

SpecHandlers == InitStdio /\ [][NextHandlers]_vars

-----------------------------------------------------------------------------
(* Calls of formatPII and of sendErrorResponse by a handler, on inputs     *)
(* drawn when the call is made.                                            *)

TemplateAlphabet == {"{", "}", "_", "u"}

Templates ==
    UNION {[1..n -> TemplateAlphabet] : n \in 0..MaxTemplateLen}

VariableNames == {<<"u">>, <<"_", "u">>}
VariableValues == {<<>>, <<"v">>}

\* the objects whose own keys are among VariableNames
VariableObjects ==
    UNION {[keys -> {Some(v) : v \in VariableValues}] : keys \in SUBSET VariableNames}

\* the variables argument: undefined or null, or an object
VariableArguments == {None} \cup {Some(o) : o \in VariableObjects}

Destinations == {User, Telemetry, User + Telemetry}

FormatCalls ==
    [kind : {"call"}, fn : {"formatPII"}, format : Templates,
     excludePII : BOOLEAN, args : VariableArguments]

\* sendErrorResponse(response, code, format, variables, dest) on the fresh
\* response of a request
NumericErrorCalls ==
    [kind : {"call"}, fn : {"sendErrorResponse"},
     codeOrMessage : {Code(3000)}, format : Templates,
     variables : VariableArguments, dest : Destinations]

\* the error messages an adapter may have built itself
Messages ==
    [id : {3000}, format : Templates, variables : VariableArguments,
     showUser : {None, Some(TRUE)}, sendTelemetry : {None, Some(TRUE)}]

\* sendErrorResponse(response, message, format, variables, dest) with a
\* message built by the adapter
PrebuiltErrorCalls ==
    [kind : {"call"}, fn : {"sendErrorResponse"},
     codeOrMessage : {Prebuilt(m) : m \in Messages},
     format : {<<"{", "_", "u", "}">>},
     variables : {Some([k \in {<<"_", "u">>} |-> Some(<<"v">>)])},
     dest : {Telemetry}]

PendingCalls == FormatCalls \cup NumericErrorCalls \cup PrebuiltErrorCalls

InitCalls ==
    /\ Constructed(FALSE, FALSE)
    /\ Started(FALSE)
    /\ out \in PendingCalls

CallRequest == [seq |-> 1, command |-> "evaluate", arguments |-> Some(NoFields)]

CallFormatPII ==
    /\ out.kind = "call" /\ out.fn = "formatPII"
    /\ out' = [kind |-> "format", format |-> out.format,
               excludePII |-> out.excludePII, args |-> out.args,
               result |-> formatPII(out.format, out.excludePII, out.args)]
    /\ UNCHANGED <<flags, exitTimers, handshake>>
    /\ UNCHANGED surroundings

CallSendErrorResponse ==
    /\ out.kind = "call" /\ out.fn = "sendErrorResponse"
    /\ \E st \in {sendErrorResponse(Start(CallRequest), out.codeOrMessage,
                                    out.format, out.variables, out.dest)} :
          out' = [kind |-> "sendError", codeOrMessage |-> out.codeOrMessage,
                  format |-> out.format, variables |-> out.variables,
                  dest |-> out.dest, sent |-> st.sent, thrown |-> st.thrown]
    /\ UNCHANGED <<flags, exitTimers, handshake>>
    /\ UNCHANGED surroundings

NextCalls ==
    \/ CallFormatPII
    \/ CallSendErrorResponse

SpecCalls == InitCalls /\ [][NextCalls]_vars

-----------------------------------------------------------------------------
(* The process run() starts, lines 270-304, with the signals that reach a  *)
(* session: 'close' and 'error' of its input stream, lines 243-248, and    *)
(* SIGTERM in stdio mode, line 299.  One session runs at a time on the     *)
(* event loop: the session variables hold the fields of that session, and  *)
(* siblings holds the fields of the other sessions of a server process.    *)

MaxSiblings == 2

Alive == process.exited = None

\* the fields of the session whose code is running
SessionFields ==
    [debuggerLinesStartAt1 |-> debuggerLinesStartAt1,
     debuggerColumnsStartAt1 |-> debuggerColumnsStartAt1,
     debuggerPathsAreURIs |-> debuggerPathsAreURIs,
     clientLinesStartAt1 |-> clientLinesStartAt1,
     clientColumnsStartAt1 |-> clientColumnsStartAt1,
     clientPathsAreURIs |-> clientPathsAreURIs,
     isServer |-> isServer,
     handshake |-> handshake]

\* the next event belongs to the session whose fields are s
Resumed(s) ==
    /\ debuggerLinesStartAt1' = s.debuggerLinesStartAt1
    /\ debuggerColumnsStartAt1' = s.debuggerColumnsStartAt1
    /\ debuggerPathsAreURIs' = s.debuggerPathsAreURIs
    /\ clientLinesStartAt1' = s.clientLinesStartAt1
    /\ clientColumnsStartAt1' = s.clientColumnsStartAt1
    /\ clientPathsAreURIs' = s.clientPathsAreURIs
    /\ isServer' = s.isServer
    /\ handshake' = s.handshake

\* the fields of new DebugSession(linesAndColumnsStartAt1, server)
NewSession(linesAndColumnsStartAt1, server) ==
    [debuggerLinesStartAt1 |-> linesAndColumnsStartAt1,
     debuggerColumnsStartAt1 |-> linesAndColumnsStartAt1,
     debuggerPathsAreURIs |-> FALSE,
     clientLinesStartAt1 |-> TRUE,
     clientColumnsStartAt1 |-> TRUE,
     clientPathsAreURIs |-> FALSE,
     isServer |-> server,
     handshake |-> NoHandshake]

\* lines 285-286: new debugSession(false, true), then setRunAsServer(true)
ServerSession == [NewSession(FALSE, TRUE) EXCEPT !.isServer = TRUE]

\* the connection callback of Net.createServer, lines 282-292: the new
\* session starts on its socket and waits for its first event
AcceptConnection ==
    /\ Alive
    /\ process.server
    /\ Len(siblings) < MaxSiblings
    /\ siblings' = Append(siblings, ServerSession)
    /\ UNCHANGED <<flags, exitTimers, handshake, out, process, inflight>>

\* the event loop turns to an event of the i-th other session
TurnTo(i) ==
    /\ Alive
    /\ i \in DOMAIN siblings
    /\ Resumed(siblings[i])
    /\ siblings' = [siblings EXCEPT ![i] = SessionFields]
    /\ UNCHANGED <<exitTimers, out, process, inflight>>

\* what a listener that takes no request works on
Signalled == [exitTimers |-> exitTimers, log |-> <<>>]

\* a listener whose body is this.shutdown() runs
Signal(name) ==
    /\ Alive
    /\ \E st \in {shutdown(Signalled)} :
          /\ exitTimers' = st.exitTimers
          /\ out' = [kind |-> "signal", name |-> name, log |-> st.log]
    /\ UNCHANGED <<flags, handshake>>
    /\ UNCHANGED surroundings

\* lines 243-245
TransportClose == Signal("close")

\* lines 246-248
TransportError == Signal("error")

\* line 299: the listener is registered in stdio mode only
Sigterm == ~process.server /\ Signal("SIGTERM")

\* the ids of the errors among the responses
ErrorIds(sent) ==
    {The(The(sent[i].body).error).id :
        i \in {j \in DOMAIN sent : IsSome(sent[j].body)
                                    /\ IsSome(The(sent[j].body).error)}}

\* the transport of a running process hands a request to the session; the
\* process keeps, as history, the ids of the errors answered so far
Serve(request, h) ==
    /\ Alive
    /\ \E st \in {dispatchRequest(request, h)} :
          /\ Dispatching(request, h, st)
          /\ process' = [process EXCEPT !.errors = @ \cup ErrorIds(st.sent)]
    /\ UNCHANGED <<handshake, siblings, inflight>>

\* line 312: the timer set by shutdown runs process.exit(0)
ExitTimerFires ==
    /\ Alive
    /\ exitTimers > 0
    /\ process' = [process EXCEPT !.exited = Some(0)]
    /\ UNCHANGED <<flags, exitTimers, handshake, out, siblings, inflight>>

\* the requests of a short session: the handshake in its three outcomes,
\* a launch, a request the class does not know, and the disconnect
LifecycleRequests ==
    {r \in Requests :
        \/ r.command \in {"launch", "disconnect", "restart"}
        \/ /\ r.command = "initialize"
           /\ IsSome(r.arguments) =>
                 /\ The(r.arguments).columnsStartAt1 = None
                 /\ The(r.arguments).pathFormat # None}

\* run(), lines 270-304: the stdio session, or the first session of a server
InitLifecycle ==
    /\ \E server \in BOOLEAN : Constructed(FALSE, server) /\ Started(server)
    /\ out = NoOutcome

NextLifecycle ==
    \/ AcceptConnection
    \/ \E i \in 1..MaxSiblings : TurnTo(i)
    \/ TransportClose
    \/ TransportError
    \/ Sigterm
    \/ \E request \in LifecycleRequests, h \in {DefaultHandler, ThrowsError} :
          Serve(request, h)
    \/ ExitTimerFires

\* the runtime runs a timer that is due
SpecLifecycle ==
    InitLifecycle /\ [][NextLifecycle]_vars /\ WF_vars(ExitTimerFires)

-----------------------------------------------------------------------------
(* Handlers that suspend: an overridden handler returns to the dispatcher  *)
(* without sending, keeps the Response it was handed, and sends it from a  *)
(* later callback.  The requests so left open are in flight.               *)

MaxInflight == 2

\* requests whose handler an adapter typically answers from a callback
SuspendedCommands == {"launch", "restart"}

\* a short session: the handshake in its three outcomes, and the above
InflightRequests ==
    {r \in Requests :
        \/ r.command \in SuspendedCommands
        \/ /\ r.command = "initialize"
           /\ IsSome(r.arguments) =>
                 /\ The(r.arguments).linesStartAt1 = None
                 /\ The(r.arguments).columnsStartAt1 = None
                 /\ The(r.arguments).pathFormat # None}

\* the handler invoked for request returns without sending and holds on
\* to the response object it was handed
DispatchSuspending(request) ==
    /\ Len(inflight) < MaxInflight
    /\ \E st \in {dispatchRequest(request, Suspends)} :
          /\ Dispatching(request, Suspends, st)
          /\ inflight' = IF st.invoked # <<>> /\ st.thrown = None
                         THEN Append(inflight, [request |-> request,
                                                response |-> st.response])
                         ELSE inflight
    /\ UNCHANGED <<handshake, process, siblings>>

\* the sequence without its i-th element
Without(seq, i) ==
    [j \in 1..(Len(seq) - 1) |-> IF j < i THEN seq[j] ELSE seq[j + 1]]

\* the ways a resumed handler answers: this.sendResponse(response), or
\* this.sendErrorResponse(response, 3000, 'u')
Answers == {"sendResponse", "sendErrorResponse"}

\* the callback of the i-th suspended handler runs and answers
Resume(i, how) ==
    /\ i \in DOMAIN inflight
    /\ LET held == inflight[i]
           resumed == [Start(held.request) EXCEPT !.response = held.response]
       IN  \E st \in {IF how = "sendResponse"
                      THEN sendResponse(resumed)
                      ELSE sendErrorResponse(resumed, Code(3000), <<"u">>,
                                             None, User)} :
              out' = [kind |-> "resumed", request |-> held.request,
                      position |-> i, how |-> how, sent |-> st.sent]
    /\ inflight' = Without(inflight, i)
    /\ UNCHANGED <<flags, exitTimers, handshake, process, siblings>>

NextInflight ==
    \/ \E request \in InflightRequests : DispatchSuspending(request)
    \/ \E i \in 1..MaxInflight, how \in Answers : Resume(i, how)
    \/ \E request \in InflightRequests, h \in {DefaultHandler, ThrowsError} :
          DispatchRequest(request, h)

SpecInflight == InitStdio /\ [][NextInflight]_vars

-----------------------------------------------------------------------------
(* Path translation, debugSession.ts 580-614.  A path or a URI is a        *)
(* sequence of one-character strings.                                      *)

MaxPathLen == 4

\* the characters of the paths tried: the two separators, a letter, the
\* colon of a drive, and the space, which a URI must escape
PathAlphabet == {"/", "\\", "c", ":", " "}

Paths == UNION {[1..n -> PathAlphabet] : n \in 0..MaxPathLen}

RECURSIVE Flatten(_)
\* the concatenation of a sequence of strings
Flatten(parts) ==
    IF parts = <<>> THEN <<>> ELSE Head(parts) \o Flatten(Tail(parts))

\* encodeURI on the characters above: the space becomes %20, and the
\* backslash %5C; letters, '/' and ':' are left as they are
encodeURI(str) ==
    Flatten([i \in DOMAIN str |->
                IF str[i] = " " THEN <<"%", "2", "0">>
                ELSE IF str[i] = "\\" THEN <<"%", "5", "C">>
                ELSE <<str[i]>>])

\* the escaping Url.parse applies to what follows the host, on the
\* characters tried: the space becomes %20
encodeSpaces(str) ==
    Flatten([i \in DOMAIN str |->
                IF str[i] = " " THEN <<"%", "2", "0">> ELSE <<str[i]>>])

FileScheme == <<"f", "i", "l", "e", ":", "/", "/">>

\* lines 604-610
path2uri(str) ==
    LET slashed == [i \in DOMAIN str |-> IF str[i] = "\\" THEN "/" ELSE str[i]]
        pathName == IF slashed # <<>> /\ slashed[1] = "/"
                    THEN slashed
                    ELSE <<"/">> \o slashed
    IN  encodeURI(FileScheme \o pathName)

\* the least index from which the characters of seq are in stops, or one
\* past the end
FirstOf(seq, stops, from) ==
    Min({i \in from..Len(seq) : seq[i] \in stops} \cup {Len(seq) + 1})

\* the characters Url.parse does not take into a host name, among those of
\* the urls tried and of the escapes encodeURI writes
NonHostChars == {"/", "?", "#", " ", "%", "\\"}

\* the characters at which Url.parse ends a host name, among the same
NonHostnameChars == {":"}

Digits == {"0", "1", "2", "3", "4", "5", "6", "7", "8", "9"}

\* Url.parse(url).pathname for a url that starts with file:// and holds no
\* '@', '.', '[' or ';'; None is null.  The url is trimmed; a backslash
\* before the first '?' or '#' reads as '/'; the host runs up to the first
\* character a host cannot hold; a port ':' or ':<digits>' at its end is
\* taken off; from the first character a host name cannot hold, the rest
\* of the host is put back in front of the path behind a '/'; a space is
\* escaped; the path name ends before the first '?' or '#'; an empty one
\* reads as '/' when there is a host name and is null when there is none
pathname(url) ==
    LET trimmed == SubSeq(url, 1,
                       Len(url) + 1 -
                       Min({k \in 1..Len(url) : url[Len(url) + 1 - k] # " "}))
        after == SubSeq(trimmed, Len(FileScheme) + 1, Len(trimmed))
        cut == FirstOf(after, {"?", "#"}, 1)
        head == [i \in 1..(cut - 1) |->
                    IF after[i] = "\\" THEN "/" ELSE after[i]]
        hostEnd == FirstOf(head, NonHostChars, 1)
        host == SubSeq(head, 1, hostEnd - 1)
        ports == {k \in DOMAIN host :
                     /\ host[k] = ":"
                     /\ \A m \in (k + 1)..Len(host) : host[m] \in Digits}
        named == IF ports = {} THEN host ELSE SubSeq(host, 1, Min(ports) - 1)
        bad == FirstOf(named, NonHostnameChars, 1)
        hostname == SubSeq(named, 1, bad - 1)
        notHost == IF bad > Len(named)
                   THEN <<>>
                   ELSE <<"/">> \o SubSeq(named, bad, Len(named))
        rest == encodeSpaces(notHost \o SubSeq(head, hostEnd, Len(head)))
    IN  IF rest # <<>> THEN Some(rest)
        ELSE IF hostname # <<>> THEN Some(<<"/">>)
        ELSE None

\* lines 612-614: a string, or null
uri2path(url) == pathname(url)

\* lines 580-589: a string, or null when uri2path gives null
convertClientPathToDebugger(clientPath) ==
    IF clientPathsAreURIs # debuggerPathsAreURIs
    THEN IF clientPathsAreURIs
         THEN uri2path(clientPath)
         ELSE Some(path2uri(clientPath))
    ELSE Some(clientPath)

\* lines 591-600: a string, or null when uri2path gives null
convertDebuggerPathToClient(debuggerPath) ==
    IF debuggerPathsAreURIs # clientPathsAreURIs
    THEN IF debuggerPathsAreURIs
         THEN uri2path(debuggerPath)
         ELSE Some(path2uri(debuggerPath))
    ELSE Some(debuggerPath)

\* lines 251-253
setDebuggerPathFormat(format) ==
    /\ debuggerPathsAreURIs' = (format # "path")
    /\ UNCHANGED <<debuggerLinesStartAt1, debuggerColumnsStartAt1,
                   clientLinesStartAt1, clientColumnsStartAt1,
                   clientPathsAreURIs, isServer, exitTimers, handshake, out>>
    /\ UNCHANGED surroundings

PathFormats == {"path", "uri"}

\* the adapter is about to send a client path to its debugger
PathCalls == [kind : {"call"}, fn : {"convertClientPathToDebugger"}, path : Paths]

MaxTailLen == 3

\* the characters of the URIs a debugger reports
UriAlphabet == {"/", "\\", "c", ":", " ", "?", "#", "%", "2"}

\* file:// followed by anything
DebuggerUris ==
    {FileScheme \o tail :
        tail \in UNION {[1..n -> UriAlphabet] : n \in 0..MaxTailLen}}

\* the adapter is about to hand a URI of its debugger to the client
UriCalls == [kind : {"call"}, fn : {"convertDebuggerPathToClient"}, path : DebuggerUris]

InitPaths ==
    /\ Constructed(FALSE, FALSE)
    /\ Started(FALSE)
    /\ out \in PathCalls \cup UriCalls

CallConvertClientPathToDebugger ==
    /\ out.kind = "call" /\ out.fn = "convertClientPathToDebugger"
    /\ out' = [kind |-> "toDebugger", path |-> out.path,
               debuggerPathsAreURIs |-> debuggerPathsAreURIs,
               debuggerPath |-> convertClientPathToDebugger(out.path)]
    /\ UNCHANGED <<flags, exitTimers, handshake>>
    /\ UNCHANGED surroundings

\* the debugger reports the path back, under the same path formats
CallConvertDebuggerPathToClient ==
    /\ out.kind = "toDebugger"
    /\ out.debuggerPathsAreURIs = debuggerPathsAreURIs
    /\ IsSome(out.debuggerPath)
    /\ out' = [kind |-> "roundTrip", path |-> out.path,
               debuggerPathsAreURIs |-> debuggerPathsAreURIs,
               debuggerPath |-> out.debuggerPath,
               clientPath |-> convertDebuggerPathToClient(The(out.debuggerPath))]
    /\ UNCHANGED <<flags, exitTimers, handshake>>
    /\ UNCHANGED surroundings

\* the debugger reports a URI of its own
CallConvertDebuggerPathToClientOn ==
    /\ out.kind = "call" /\ out.fn = "convertDebuggerPathToClient"
    /\ out' = [kind |-> "toClient", path |-> out.path,
               debuggerPathsAreURIs |-> debuggerPathsAreURIs,
               clientPath |-> convertDebuggerPathToClient(out.path)]
    /\ UNCHANGED <<flags, exitTimers, handshake>>
    /\ UNCHANGED surroundings

NextPaths ==
    \/ \E format \in PathFormats : setDebuggerPathFormat(format)
    \/ CallConvertClientPathToDebugger
    \/ CallConvertDebuggerPathToClient
    \/ CallConvertDebuggerPathToClientOn

SpecPaths == InitPaths /\ [][NextPaths]_vars

-----------------------------------------------------------------------------
(* The session of an adapter that reconfigures it at any time, through     *)
(* all four setters, while requests are served by the default handlers.    *)

\* lines 263-265
setRunAsServer(enable) ==
    /\ isServer' = enable
    /\ UNCHANGED <<debuggerLinesStartAt1, debuggerColumnsStartAt1,
                   debuggerPathsAreURIs, clientLinesStartAt1,
                   clientColumnsStartAt1, clientPathsAreURIs,
                   exitTimers, handshake, out>>
    /\ UNCHANGED surroundings

NextFlags ==
    \/ \E format \in PathFormats : setDebuggerPathFormat(format)
    \/ \E enable \in BOOLEAN : setDebuggerLinesStartAt1(enable)
    \/ \E enable \in BOOLEAN : setDebuggerColumnsStartAt1(enable)
    \/ \E enable \in BOOLEAN : setRunAsServer(enable)
    \/ \E request \in Requests : DispatchRequest(request, DefaultHandler)

SpecFlags == Init /\ [][NextFlags]_vars

-----------------------------------------------------------------------------
(* Calls of sendErrorResponse by a handler on the response it was handed,  *)
(* whose body it may have filled, with the destination given or left out.  *)

\* line 317: dest: ErrorDestination = ErrorDestination.User
destinationOrDefault(dest) == IF dest = None THEN User ELSE The(dest)

\* the body of the response before the call: none, or one with a field
FilledBody == [error |-> None, fields |-> [threads |-> FALSE]]
PreparedBodies == {None, Some(FilledBody)}

\* the destination argument: left out, or given
DestinationArguments == {None} \cup {Some(d) : d \in Destinations}

\* templates without a token, with a token that is redacted, and with one
\* that is not
PayloadTemplates == {<<>>, <<"u">>, <<"{", "u", "}">>, <<"{", "_", "u", "}">>}

\* the error messages an adapter may have built itself
PayloadMessages ==
    [id : {3000}, format : PayloadTemplates, variables : VariableArguments,
     showUser : {None, Some(TRUE)}, sendTelemetry : {None, Some(TRUE)}]

NumericPayloadCalls ==
    [kind : {"call"}, fn : {"sendErrorResponse"}, body : PreparedBodies,
     codeOrMessage : {Code(3000)}, format : Templates,
     variables : VariableArguments, dest : DestinationArguments]

PrebuiltPayloadCalls ==
    [kind : {"call"}, fn : {"sendErrorResponse"}, body : PreparedBodies,
     codeOrMessage : {Prebuilt(m) : m \in PayloadMessages},
     format : {<<>>, <<"{", "_", "u", "}">>},
     variables : {None, Some([k \in {<<"_", "u">>} |-> Some(<<"v">>)])},
     dest : {None, Some(Telemetry)}]

InitPayload ==
    /\ Constructed(FALSE, FALSE)
    /\ Started(FALSE)
    /\ out \in NumericPayloadCalls \cup PrebuiltPayloadCalls

\* this.sendErrorResponse(response, codeOrMessage, format, variables, dest)
\* on the response of a request, as the handler has prepared it
CallSendErrorResponseOn ==
    /\ out.kind = "call" /\ out.fn = "sendErrorResponse"
    /\ LET prepared == [Start(CallRequest) EXCEPT !.response.body = out.body]
       IN  \E st \in {sendErrorResponse(prepared, out.codeOrMessage, out.format,
                                         out.variables,
                                         destinationOrDefault(out.dest))} :
              out' = [kind |-> "sendError", body |-> out.body,
                      codeOrMessage |-> out.codeOrMessage,
                      format |-> out.format, variables |-> out.variables,
                      dest |-> out.dest, response |-> st.response,
                      sent |-> st.sent, log |-> st.log, thrown |-> st.thrown]
    /\ UNCHANGED <<flags, exitTimers, handshake>>
    /\ UNCHANGED surroundings

NextPayload == CallSendErrorResponseOn

SpecPayload == InitPayload /\ [][NextPayload]_vars

-----------------------------------------------------------------------------
(* Properties.                                                             *)

Dispatched == out.kind = "dispatch"

\* the dispatch reached a handler of the adapter
HandlerEntered == Dispatched /\ out.invoked # <<>>

\* the error payload of a sent response, if it has one
ErrorOf(response) ==
    IF IsSome(response.body) THEN The(response.body).error ELSE None

\* the response is the error with this id, flagged for telemetry only
IsTelemetryError(response, id) ==
    /\ ~response.success
    /\ IsSome(ErrorOf(response))
    /\ The(ErrorOf(response)).id = id
    /\ The(ErrorOf(response)).sendTelemetry = Some(TRUE)
    /\ The(ErrorOf(response)).showUser = None

\* C1: every request passed to dispatchRequest produces exactly one sent
\* Response, whatever point of its execution the handler throws at: the
\* number of sendResponse calls is one, never zero and never two.
C1_ExactlyOneResponse ==
    (HandlerEntered /\ out.handler.kind \in {"throws", "sendsThenThrows"})
        => Len(out.sent) = 1

\* a request that names a recognized command and is minimally valid
MinimallyValid(request) ==
    /\ request.command \in RecognizedCommands
    /\ request.command = "initialize" =>
          /\ IsSome(request.arguments)
          /\ The(request.arguments).pathFormat = Some("path")

\* C2: with the default handlers, a request of any of the 21 recognized
\* commands (initialize with pathFormat 'path') gets exactly one
\* sendResponse call, with success true and the sequence number and the
\* command of the request.
C2_DefaultHandlersSucceed ==
    (Dispatched /\ out.handler = DefaultHandler /\ MinimallyValid(out.request))
        => /\ Len(out.sent) = 1
           /\ out.sent[1].success = TRUE
           /\ out.sent[1].request_seq = out.request.seq
           /\ out.sent[1].command = out.request.command

C2_Witness ==
    /\ Dispatched
    /\ out.request.command = "stepBack"
    /\ out.request.seq = MaxSeq
    /\ Len(out.sent) = 1
    /\ out.sent[1].success
    /\ out.sent[1].request_seq = MaxSeq

\* C3: a request whose command is outside the recognized set gets, from
\* the default customRequest, exactly one Response: success false, error
\* id 1014, sendTelemetry set and showUser not set.
C3_UnrecognizedCommand ==
    (Dispatched /\ out.handler = DefaultHandler
       /\ out.request.command \notin RecognizedCommands)
        => /\ Len(out.sent) = 1
           /\ IsTelemetryError(out.sent[1], 1014)

C3_Witness ==
    /\ Dispatched
    /\ out.request.command = "restart"
    /\ out.invoked = <<"customRequest">>
    /\ Len(out.sent) = 1
    /\ ~out.sent[1].success
    /\ out.sent[1].message = Some(UnrecognizedRequestFormat)

\* an initialize request whose arguments ask for another path format
RejectedInitialize(request) ==
    /\ request.command = "initialize"
    /\ IsSome(request.arguments)
    /\ The(request.arguments).pathFormat # Some("path")

\* C4: an initialize request whose pathFormat is not 'path' gets exactly
\* one error Response, id 2018, success false, telemetry only; the
\* initialize handler is not invoked and the body has no capability field.
C4_PathFormatRejected ==
    (Dispatched /\ RejectedInitialize(out.request))
        => /\ Len(out.sent) = 1
           /\ IsTelemetryError(out.sent[1], 2018)
           /\ out.invoked = <<>>
           /\ The(out.sent[1].body).fields = EmptyObject

C4_Witness ==
    /\ Dispatched
    /\ out.request.command = "initialize"
    /\ IsSome(out.request.arguments)
    /\ The(out.request.arguments).pathFormat = Some("uri")
    /\ Len(out.sent) = 1
    /\ out.sent[1].message = Some(NativePathsFormat)
    /\ out.invoked = <<>>

\* the response is the 1104 error that reports the exception e, its
\* _exception and _stack variables populated and its message the stack
ReportsException(response) ==
    /\ IsTelemetryError(response, 1104)
    /\ IsSome(The(ErrorOf(response)).variables)
    /\ LET variables == The(The(ErrorOf(response)).variables)
       IN  /\ {ExceptionKey, StackKey} \subseteq DOMAIN variables
           /\ IsSome(variables[ExceptionKey])
           /\ IsSome(variables[StackKey])
           /\ response.message = variables[StackKey]
           /\ formatPII(StackFormat, TRUE, Some(variables)).value # StackFormat

\* C5: when a handler throws, whatever the value thrown, the dispatcher
\* sends the error 1104, telemetry flagged, whose _exception and _stack
\* variables are populated and rendered under the redacting rendering.
C5_ExceptionReported ==
    (HandlerEntered /\ out.handler.kind = "throws")
        => /\ Len(out.sent) = 1
           /\ ReportsException(out.sent[1])

\* C6: dispatchRequest never propagates an exception to its caller, for
\* every request and every value a handler may throw.
C6_NothingEscapes ==
    Dispatched => out.escaped = None

\* C7: sendErrorResponse sets response.message to the un-redacted
\* rendering format(msg.format, redact_pii = false, msg.variables).
C7_MessageUnredacted ==
    (out.kind = "sendError" /\ Len(out.sent) = 1)
        => LET msg == The(ErrorOf(out.sent[1]))
               unredacted == formatPII(msg.format, FALSE, msg.variables)
           IN  ~unredacted.threw
                  => out.sent[1].message = Some(unredacted.value)

\* what C8 says format(template, redact, variables) returns: each token
\* is replaced by variables[name] exactly when the key exists and (redact
\* is false or the name starts with "_")
RECURSIVE ClaimedFormat(_, _, _, _)
ClaimedFormat(format, redact, variables, i) ==
    IF i > Len(format) THEN <<>>
    ELSE LET j == MatchEnd(format, i)
             name == SubSeq(format, i + 1, j - 1)
         IN  IF j = 0
             THEN <<format[i]>> \o ClaimedFormat(format, redact, variables, i + 1)
             ELSE (IF /\ variables # None
                      /\ name \in DOMAIN The(variables)
                      /\ The(variables)[name] # None
                      /\ (~redact \/ name[1] = "_")
                   THEN The(The(variables)[name])
                   ELSE SubSeq(format, i, j))
                  \o ClaimedFormat(format, redact, variables, j + 1)

\* C8: for every template, redact flag and variables mapping (missing
\* keys, keys mapped to the empty string, an absent mapping, an unclosed
\* brace) formatPII returns, without throwing, the template with each
\* token replaced exactly when its key exists and (redact is false or
\* the name starts with "_").
C8_FormatAsSpecified ==
    out.kind = "format"
        => /\ ~out.result.threw
           /\ out.result.value = ClaimedFormat(out.format, out.excludePII, out.args, 1)

\* the conventions a recorded translation ran under are still in force
SameLineConventions ==
    /\ out.clientStartAt1 = clientLinesStartAt1
    /\ out.debuggerStartAt1 = debuggerLinesStartAt1

SameColumnConventions ==
    /\ out.clientStartAt1 = clientColumnsStartAt1
    /\ out.debuggerStartAt1 = debuggerColumnsStartAt1

\* C9: under conventions held fixed, translating a line or a column to the
\* other side and back returns it, in both orders, for all four
\* combinations of the client and debugger conventions.
C9_RoundTrip ==
    /\ \A n \in LineNumbers :
          /\ convertClientLineToDebugger(convertDebuggerLineToClient(n)) = n
          /\ convertDebuggerLineToClient(convertClientLineToDebugger(n)) = n
          /\ convertClientColumnToDebugger(convertDebuggerColumnToClient(n)) = n
          /\ convertDebuggerColumnToClient(convertClientColumnToDebugger(n)) = n
    /\ (out.kind = "convert" /\ out.fn = "convertDebuggerLineToClient"
          /\ SameLineConventions)
          => convertClientLineToDebugger(out.result) = out.n
    /\ (out.kind = "convert" /\ out.fn = "convertClientLineToDebugger"
          /\ SameLineConventions)
          => convertDebuggerLineToClient(out.result) = out.n
    /\ (out.kind = "convert" /\ out.fn = "convertDebuggerColumnToClient"
          /\ SameColumnConventions)
          => convertClientColumnToDebugger(out.result) = out.n
    /\ (out.kind = "convert" /\ out.fn = "convertClientColumnToDebugger"
          /\ SameColumnConventions)
          => convertDebuggerColumnToClient(out.result) = out.n

C9_Witness ==
    /\ out.kind = "convert"
    /\ out.fn = "convertDebuggerLineToClient"
    /\ SameLineConventions
    /\ ~clientLinesStartAt1 /\ debuggerLinesStartAt1
    /\ out.n = MaxLine
    /\ out.result = MaxLine - 1
    /\ convertClientLineToDebugger(out.result) = MaxLine

\* the first line or column number of a convention: 1 or 0
Base(startAt1) == IF startAt1 THEN 1 ELSE 0

\* C10: after an initialize request with pathFormat 'path' that carries
\* linesStartAt1 = c (columnsStartAt1 = c), every later line (column)
\* translation uses c as the client base, whatever requests came in
\* between: debugger to client returns
\* n + (clientBase - debuggerBase), client to debugger returns
\* n - (clientBase - debuggerBase), with no clamping.
C10_ClientBaseFromInitialize ==
    /\ \A c \in handshake.lines :
          /\ clientLinesStartAt1 = c
          /\ debuggerLinesStartAt1 =>
                convertDebuggerLineToClient(5) = (IF c THEN 5 ELSE 4)
          /\ out.kind = "convert" =>
                /\ out.fn = "convertDebuggerLineToClient" =>
                      out.result = out.n + (Base(c) - Base(out.debuggerStartAt1))
                /\ out.fn = "convertClientLineToDebugger" =>
                      out.result = out.n - (Base(c) - Base(out.debuggerStartAt1))
    /\ \A c \in handshake.columns :
          /\ clientColumnsStartAt1 = c
          /\ out.kind = "convert" =>
                /\ out.fn = "convertDebuggerColumnToClient" =>
                      out.result = out.n + (Base(c) - Base(out.debuggerStartAt1))
                /\ out.fn = "convertClientColumnToDebugger" =>
                      out.result = out.n - (Base(c) - Base(out.debuggerStartAt1))

\* C11: in a server process, whose sessions are all created by the
\* connection callback of run(), no transport close, transport error or
\* disconnect request on any session sets the exit timer or ends the
\* process, so every session goes on being served.
C11_ServerNeverExits ==
    process.server =>
        /\ isServer
        /\ \A i \in DOMAIN siblings : siblings[i].isServer
        /\ exitTimers = 0
        /\ Alive
        /\ (out.kind = "signal" \/ (Dispatched /\ out.request.command = "disconnect"))
              => "setTimeout" \notin {out.log[i] : i \in DOMAIN out.log}

\* a disconnect request was answered in a server process with several
\* sessions, and shutdown only logged
C11_Witness ==
    /\ process.server
    /\ Len(siblings) = MaxSiblings
    /\ Dispatched /\ out.request.command = "disconnect"
    /\ out.log = <<"sendResponse", "console.error">>
    /\ exitTimers = 0
    /\ Alive

\* a listener that calls shutdown has run, or the default disconnect handler
DefaultDisconnect ==
    /\ Dispatched
    /\ out.request.command = "disconnect"
    /\ out.handler = DefaultHandler

ShutdownTriggered == out.kind = "signal" \/ DefaultDisconnect

\* C12: in stdio mode each of transport close, transport error, SIGTERM and
\* a disconnect request sets the exit timer, and the process then exits
\* with code 0 once the timer runs; for the disconnect request the success
\* Response is handed to the transport before the timer is set.
C12_StdioShutdownExits ==
    /\ [](~process.server /\ ShutdownTriggered =>
            /\ exitTimers > 0
            /\ out.log[Len(out.log)] = "setTimeout"
            /\ process.exited \in {None, Some(0)})
    /\ [](~process.server /\ DefaultDisconnect =>
            /\ out.log = <<"sendResponse", "setTimeout">>
            /\ Len(out.sent) = 1
            /\ out.sent[1].success
            /\ out.sent[1].request_seq = out.request.seq)
    /\ (~process.server /\ ShutdownTriggered) ~> (process.exited = Some(0))

\* the stdio process has exited with code 0 after a disconnect request
\* that was answered first
C12_Witness ==
    /\ ~process.server
    /\ process.exited = Some(0)
    /\ DefaultDisconnect
    /\ out.log = <<"sendResponse", "setTimeout">>

\* the response carries the sequence number and the command of the request
AnswersTo(response, request) ==
    /\ response.request_seq = request.seq
    /\ response.command = request.command

\* C13: with several requests in flight, the Response each suspended
\* handler holds, and every Response it sends when it resumes, carries the
\* seq and the command of the request it was created for, whatever the
\* order of dispatches and sends; and a step that dispatches or answers
\* one request leaves the Responses of the others in flight as they were.
C13_InflightKeepOwnRequest ==
    /\ [](/\ \A i \in DOMAIN inflight :
                AnswersTo(inflight[i].response, inflight[i].request)
          /\ out.kind = "resumed" =>
                /\ Len(out.sent) = 1
                /\ AnswersTo(out.sent[1], out.request))
    /\ [][\/ inflight' = inflight
          \/ /\ Len(inflight') = Len(inflight) + 1
             /\ SubSeq(inflight', 1, Len(inflight)) = inflight
          \/ \E i \in DOMAIN inflight : inflight' = Without(inflight, i)]_vars

\* the later of two requests in flight has been answered before the
\* earlier one, which is still in flight, and their seq numbers differ
C13_Witness ==
    /\ out.kind = "resumed"
    /\ out.position = 2
    /\ Len(inflight) = 1
    /\ inflight[1].request.seq # out.request.seq
    /\ inflight[1].request.command # out.request.command
    /\ AnswersTo(out.sent[1], out.request)

\* the handler named for each recognized command
HandlerNamed ==
    [c \in RecognizedCommands |->
        CASE c = "initialize" -> "initializeRequest"
          [] c = "launch" -> "launchRequest"
          [] c = "attach" -> "attachRequest"
          [] c = "disconnect" -> "disconnectRequest"
          [] c = "setBreakpoints" -> "setBreakPointsRequest"
          [] c = "setFunctionBreakpoints" -> "setFunctionBreakPointsRequest"
          [] c = "setExceptionBreakpoints" -> "setExceptionBreakPointsRequest"
          [] c = "configurationDone" -> "configurationDoneRequest"
          [] c = "continue" -> "continueRequest"
          [] c = "next" -> "nextRequest"
          [] c = "stepIn" -> "stepInRequest"
          [] c = "stepOut" -> "stepOutRequest"
          [] c = "stepBack" -> "stepBackRequest"
          [] c = "pause" -> "pauseRequest"
          [] c = "stackTrace" -> "stackTraceRequest"
          [] c = "scopes" -> "scopesRequest"
          [] c = "variables" -> "variablesRequest"
          [] c = "setVariable" -> "setVariableRequest"
          [] c = "source" -> "sourceRequest"
          [] c = "threads" -> "threadsRequest"
          [] c = "evaluate" -> "evaluateRequest"]

\* the dispatch invoked one handler: the one named for a recognized
\* command, and customRequest, passed the command name, for any other
RoutedByName ==
    IF out.request.command \in RecognizedCommands
    THEN out.invoked = <<HandlerNamed[out.request.command]>>
    ELSE /\ out.invoked = <<"customRequest">>
         /\ out.passed = <<out.request.command>>

\* C14 as stated: every dispatch of a recognized command invokes exactly
\* one handler, the one named for the command, and every dispatch of
\* another command invokes only customRequest, passed the command name.
C14_RoutingTotal ==
    Dispatched => RoutedByName

\* C14 amended: an initialize request without arguments, or whose
\* pathFormat is not 'path', invokes no handler at all; every other
\* request invokes exactly one handler, the one named for its command when
\* the command is recognized, and customRequest, passed the command name,
\* when it is not.
C14_RoutingExceptRejectedInitialize ==
    Dispatched =>
        IF out.request.command = "initialize"
           /\ (out.request.arguments = None \/ RejectedInitialize(out.request))
        THEN out.invoked = <<>>
        ELSE RoutedByName

\* a setBreakpoints request reached the handler whose name is spelled
\* with a capital P, and nothing else
C14_Witness ==
    /\ Dispatched
    /\ out.request.command = "setBreakpoints"
    /\ out.invoked = <<"setBreakPointsRequest">>
    /\ out.passed = <<"">>

\* a path rooted at '/', or at a drive such as c:/
Rooted(p) ==
    \/ Len(p) >= 1 /\ p[1] = "/"
    \/ Len(p) >= 3 /\ p[1] = "c" /\ p[2] = ":" /\ p[3] = "/"

\* an absolute path none of whose characters a URI has to escape
PlainAbsolute(p) ==
    /\ Rooted(p)
    /\ \A i \in DOMAIN p : p[i] \in {"/", "c", ":"}

\* C15: when the debugger uses URIs and the client paths, a well-formed
\* absolute path without characters that need percent-encoding comes
\* back unchanged from convertClientPathToDebugger followed by
\* convertDebuggerPathToClient, that is from path2uri followed by uri2path.
C15_PathRoundTrip ==
    (out.kind = "roundTrip" /\ out.debuggerPathsAreURIs /\ PlainAbsolute(out.path))
        => out.clientPath = Some(out.path)

\* C16: over any sequence of requests, also one with more than one
\* initialize, each client flag changes value at most once: a flag starts
\* as 1-based, so once it has become 0-based it never changes again.
C16_ClientFlagsChangeOnce ==
    [][/\ ~clientLinesStartAt1 => ~clientLinesStartAt1'
       /\ ~clientColumnsStartAt1 => ~clientColumnsStartAt1']_vars

\* C17: a step that ends with an initialize request refused for its path
\* format leaves both client flags as they were before it.
C17_RejectedInitializeKeepsFlags ==
    [][(out'.kind = "dispatch" /\ RejectedInitialize(out'.request)) =>
          /\ clientLinesStartAt1' = clientLinesStartAt1
          /\ clientColumnsStartAt1' = clientColumnsStartAt1]_vars

\* the step ends with the dispatch of an initialize request whose
\* arguments carry the field as a boolean, and the flag now has that value
CarriedBy(after, field, flag) ==
    /\ after.kind = "dispatch"
    /\ after.request.command = "initialize"
    /\ IsSome(after.request.arguments)
    /\ The(after.request.arguments)[field] = Some(flag)

\* a client flag changes only in the dispatch of an initialize request
\* that carries its own field as a boolean, and then to that value,
\* whatever the other field is; a debugger-side flag or the server flag
\* changes only in a step that is no dispatch: it leaves the outcome, the
\* client flags, the timers and the handshake alone, as the setters do;
\* the client path format never changes
DesignatedOnly ==
    /\ clientLinesStartAt1' # clientLinesStartAt1 =>
          CarriedBy(out', "linesStartAt1", clientLinesStartAt1')
    /\ clientColumnsStartAt1' # clientColumnsStartAt1 =>
          CarriedBy(out', "columnsStartAt1", clientColumnsStartAt1')
    /\ <<debuggerLinesStartAt1, debuggerColumnsStartAt1,
         debuggerPathsAreURIs, isServer>>' #
       <<debuggerLinesStartAt1, debuggerColumnsStartAt1,
         debuggerPathsAreURIs, isServer>> =>
          UNCHANGED <<out, clientLinesStartAt1, clientColumnsStartAt1,
                      exitTimers, handshake>>
    /\ clientPathsAreURIs' = clientPathsAreURIs

\* the part of C18 that does not involve the error answers
FlagsChangeByDesignatedOperations == [][DesignatedOnly]_vars

\* a step that ends with a request answered by an error Response leaves
\* the client flags as they were
ErrorAnswersKeepFlags ==
    (/\ out'.kind = "dispatch"
     /\ \E i \in DOMAIN out'.sent : ~out'.sent[i].success) =>
        /\ clientLinesStartAt1' = clientLinesStartAt1
        /\ clientColumnsStartAt1' = clientColumnsStartAt1

\* C18: convention flags are modified only by their designated
\* operations: a client flag only by an initialize request that carries
\* its field as a boolean, the debugger-side flags only by the setters,
\* and no request answered through an error path changes a flag.
C18_FlagFrame ==
    [][DesignatedOnly /\ ErrorAnswersKeepFlags]_vars

\* the id of the error a response carries, or 0 when it carries none
ErrorId(response) ==
    IF IsSome(ErrorOf(response)) THEN The(ErrorOf(response)).id ELSE 0

\* C19: when an overridden handler returns without sending, the call of
\* dispatchRequest sends nothing and raises nothing, and the request is in
\* flight; it leaves the requests in flight only when its handler sends,
\* and the Response then sent is its own.  What the dispatcher sends when
\* the handler sends nothing, or when no handler runs, is only the error
\* 2018 of a refused initialize and the error 1104 of an exception.
C19_NoAutoSend ==
    /\ []((Dispatched /\ out.handler = Suspends /\ HandlerEntered) =>
            /\ out.sent = <<>>
            /\ out.escaped = None
            /\ inflight # <<>>
            /\ inflight[Len(inflight)].request = out.request)
    /\ []((Dispatched /\ (out.handler \in {Suspends, ThrowsError} \/ ~HandlerEntered)) =>
            \A i \in DOMAIN out.sent :
                /\ ~out.sent[i].success
                /\ ErrorId(out.sent[i]) \in {2018, 1104}
                /\ ErrorId(out.sent[i]) = 2018 => RejectedInitialize(out.request)
                /\ ErrorId(out.sent[i]) = 1104 =>
                      (out.handler = ThrowsError \/ out.request.arguments = None))
    /\ [][Len(inflight') < Len(inflight) =>
            /\ out'.kind = "resumed"
            /\ out'.position \in DOMAIN inflight
            /\ inflight[out'.position].request = out'.request
            /\ Len(out'.sent) = 1
            /\ AnswersTo(out'.sent[1], out'.request)]_vars

\* the override of launchRequest has returned without sending: nothing
\* was sent for the request, which is now in flight
C19_Witness ==
    /\ Dispatched
    /\ out.handler = Suspends
    /\ out.request.command = "launch"
    /\ out.invoked = <<"launchRequest">>
    /\ out.sent = <<>>
    /\ Len(inflight) = MaxInflight
    /\ inflight[Len(inflight)].request = out.request

\* the ids of the request-level failures
FailureIds == {2018, 1014, 1104}

\* the outcome is a request answered with one of the three failures
Failed(outcome) ==
    /\ outcome.kind = "dispatch"
    /\ ErrorIds(outcome.sent) \cap FailureIds # {}

\* the outcome is the one a session that has served nothing gives for the
\* request and the handlers: routed by the command name, answered once,
\* for this request, with success or with the error that applies
AsInFreshSession(outcome) ==
    LET r == outcome.request
        refused == r.command = "initialize" /\ IsSome(r.arguments)
                   /\ The(r.arguments).pathFormat # Some("path")
        unreadable == r.command = "initialize" /\ r.arguments = None
        expected == IF unreadable THEN 1104
                    ELSE IF refused THEN 2018
                    ELSE IF outcome.handler = ThrowsError THEN 1104
                    ELSE IF r.command \in RecognizedCommands THEN 0
                    ELSE 1014
    IN  /\ outcome.escaped = None
        /\ outcome.invoked =
              IF unreadable \/ refused THEN <<>>
              ELSE IF r.command \in RecognizedCommands
                   THEN <<HandlerNamed[r.command]>>
                   ELSE <<"customRequest">>
        /\ Len(outcome.sent) = 1
        /\ AnswersTo(outcome.sent[1], r)
        /\ outcome.sent[1].success = (expected = 0)
        /\ ErrorId(outcome.sent[1]) = expected

\* C20: a request answered with error 2018, 1014 or 1104 sets no exit
\* timer and does not end the process; once such a failure has been
\* answered, every request dispatched afterwards is routed and answered
\* as in a session that has served nothing; and the exit timer is set
\* only by a transport close, a transport error, SIGTERM or the default
\* disconnect handler, the process ending only when that timer runs.
C20_FailuresNotFatal ==
    /\ [][Failed(out') =>
            /\ exitTimers' = exitTimers
            /\ \A i \in DOMAIN out'.log : out'.log[i] = "sendResponse"]_vars
    /\ []((process.errors # {} /\ Dispatched) => AsInFreshSession(out))
    /\ [][exitTimers' > exitTimers =>
            \/ out'.kind = "signal"
            \/ /\ out'.kind = "dispatch"
               /\ out'.request.command = "disconnect"
               /\ out'.handler = DefaultHandler]_vars
    /\ [][process'.exited # process.exited =>
            exitTimers > 0 /\ process'.exited = Some(0)]_vars

\* the stdio session has answered all three failures, and then a launch
\* request with success; no exit timer is set and the process runs
C20_Witness ==
    /\ ~process.server
    /\ process.errors = FailureIds
    /\ Dispatched
    /\ out.request.command = "launch"
    /\ out.handler = DefaultHandler
    /\ Len(out.sent) = 1 /\ out.sent[1].success
    /\ exitTimers = 0
    /\ Alive

\* the destination includes User (1), Telemetry (2)
IncludesUser(dest) == dest \in {None, Some(1), Some(3)}
IncludesTelemetry(dest) == dest \in {Some(2), Some(3)}

\* the error payload C21 describes for the arguments of the call
PayloadClaimed(call) ==
    IF IsSome(call.codeOrMessage.code)
    THEN [id |-> The(call.codeOrMessage.code),
          format |-> call.format,
          variables |-> call.variables,
          showUser |-> IF IncludesUser(call.dest) THEN Some(TRUE) ELSE None,
          sendTelemetry |-> IF IncludesTelemetry(call.dest) THEN Some(TRUE) ELSE None]
    ELSE The(call.codeOrMessage.message)

\* the response, as the call has left it, has success false, the claimed
\* payload as body.error, and the other fields of the body it had before
PayloadBuilt(call, response) ==
    /\ ~response.success
    /\ IsSome(response.body)
    /\ The(response.body).error = Some(PayloadClaimed(call))
    /\ The(response.body).fields =
          IF call.body = None THEN EmptyObject ELSE The(call.body).fields

\* the part of C21 that holds: whenever sendErrorResponse does send, it
\* sends once, and what it sends is the response with the claimed payload
PayloadAsClaimedWhenSent ==
    (out.kind = "sendError" /\ out.sent # <<>>) =>
        /\ Len(out.sent) = 1
        /\ out.log = <<"sendResponse">>
        /\ out.thrown = None
        /\ PayloadBuilt(out, out.sent[1])
        /\ AnswersTo(out.sent[1], CallRequest)

\* C21: sendErrorResponse, given a numeric code, builds body.error from
\* the code, the format, the variables when supplied and the destination
\* (User when left out), and given a pre-built message takes it unchanged
\* whatever the other arguments are; in both cases it sets success to
\* false, keeps the other fields of the body, and sends the Response
\* once through sendResponse.
C21_ErrorPayload ==
    out.kind = "sendError" =>
        /\ Len(out.sent) = 1
        /\ out.log = <<"sendResponse">>
        /\ out.thrown = None
        /\ PayloadBuilt(out, out.sent[1])

====
